---- MODULE Spec2Model ----
(***************************************************************************)
(* A model of the deb_info tools around the apt-xapian-index:              *)
(*   - readValueDB, the reader of the "values" file, in its two variants   *)
(*     (axi/__init__.py and aptxapianindex.py);                            *)
(*   - the registry of value slots built by update-index.py, and the       *)
(*     Sizes plugin (plugins/sizes.py) that is initialised from it;        *)
(*   - termsForSimpleQuery and addSimpleFilterToQuery (aptxapianindex.py); *)
(*   - decode_time, decode_version, dump_doc_info and the full scans of    *)
(*     dump_terms.py and list_packages.py.                                 *)
(* Every component has its own specification over the same variables; the  *)
(* variables of the other components stay at their initial value.          *)
(***************************************************************************)
EXTENDS Integers, Sequences, FiniteSets, TLC

VARIABLES
    vdbVariant,   \* which readValueDB was called: "axi" or "example"
    vdbSource,    \* the file at `pathname`: Unreadable, or its lines
    vdbResult,    \* what the call returned: [called, values, descs]
    plugins,      \* update-index: indexer.plugins, the addons in load order
    indexer,      \* update-index: indexer.values, indexer.values_desc
    next_slot,    \* update-index: the next free slot
    regPc,        \* update-index: where main() is
    sizes,        \* the Sizes plugin: val_inst_size, val_pkg_size, values written
    keywords,     \* termsForSimpleQuery: the user's keywords
    stemmer,      \* termsForSimpleQuery: the stemmer xapian.Stem gives
    terms,        \* termsForSimpleQuery: [called, terms], the list returned
    query,        \* addSimpleFilterToQuery: the query argument
    filtername,   \* addSimpleFilterToQuery: the filtername argument
    filterdb,     \* the module's table of preset filters
    filtered,     \* addSimpleFilterToQuery: [called, raised, query, message]
    raw,          \* decode_time: the bytes of the value slot
    decoded,      \* decode_time: [called, timed, value, time], what it shows
    doc,          \* dump_doc_info: the document db.get_document(docid) gives
    pm,           \* how dpkg-query and apt-cache answer
    dumped,       \* dump_doc_info: [called, raised, error, record]
    db,           \* the index: its documents by document id
    command,      \* the scan that runs: [name, arg]
    docid,        \* the scan's loop variable
    found,        \* the scan's found_any / found / names / groups so far
    output,       \* what the scan has printed
    status,       \* "idle", "running", "done" or "raised"
    error         \* the exception that ended the scan

vdbVars == <<vdbVariant, vdbSource, vdbResult>>

regVars == <<plugins, indexer, next_slot, regPc, sizes>>

termVars == <<keywords, stemmer, terms>>

filterVars == <<query, filtername, filterdb, filtered>>

timeVars == <<raw, decoded>>

dumpVars == <<doc, dumped>>

scanVars == <<db, command, docid, found, output, status, error>>

vars == <<vdbVars, regVars, termVars, filterVars, timeVars, pm, dumpVars, scanVars>>

Range(s) == {s[i] : i \in DOMAIN s}

\* The sequences over S of length at most n.
SeqUpTo(S, n) == UNION {[1..k -> S] : k \in 0..n}

(***************************************************************************)
(* readValueDB                                                             *)
(*                                                                         *)
(* A line of the file is modelled by what the two parsers look at: whether *)
(* it starts with whitespace, its whitespace-separated fields before any   *)
(* "#", and what follows the fields: nothing, a bare "#", or "# text".     *)
(* A field is a sequence of characters; a name is a one-element sequence   *)
(* holding the whole name.                                                 *)
(***************************************************************************)
MaxLines == 3

\* open(pathname) raises OSError.
Unreadable == [readable |-> FALSE, lines |-> <<>>]

Readable(lines) == [readable |-> TRUE, lines |-> lines]

Line(lead, fields, comment) == [lead |-> lead, fields |-> fields, comment |-> comment]

Lines ==
    { Line(FALSE, <<>>, "none"),                     \* a blank line
      Line(TRUE, <<>>, "text"),                      \* "  # comment"
      Line(FALSE, << <<"a">>, <<"1">> >>, "none"),   \* "a 1"
      Line(FALSE, << <<"a">>, <<"2">> >>, "none"),   \* "a 2"
      Line(FALSE, << <<"b">>, <<"1">> >>, "text"),   \* "b 1 # d"
      Line(FALSE, << <<"b">>, <<"0", "2">> >>, "empty"), \* "b 02 #"
      Line(FALSE, << <<"a">> >>, "none"),            \* "a"
      Line(FALSE, << <<"b">>, <<"x">> >>, "none"),   \* "b x"
      Line(FALSE, << <<"b">>, <<"2">>, <<"a">> >>, "none"), \* "b 2 a"
      Line(TRUE, << <<"a">>, <<"1">> >>, "none"),    \* " a 1"
      Line(TRUE, << <<"1">> >>, "none"),             \* " 1"
      Line(FALSE, << <<"c">>, <<"-", "1">> >>, "none") }   \* "c -1"

Sources == {Unreadable} \cup {Readable(ls) : ls \in SeqUpTo(Lines, MaxLines)}

Digits == {"0", "1", "2", "3", "4", "5", "6", "7", "8", "9"}

DigitValue(c) ==
    CASE c = "0" -> 0 [] c = "1" -> 1 [] c = "2" -> 2 [] c = "3" -> 3
      [] c = "4" -> 4 [] c = "5" -> 5 [] c = "6" -> 6 [] c = "7" -> 7
      [] c = "8" -> 8 [] c = "9" -> 9

\* \d+
IsDigits(f) == Len(f) > 0 /\ \A i \in DOMAIN f : f[i] \in Digits

RECURSIVE DecimalValue(_)
DecimalValue(f) ==
    IF f = <<>> THEN 0
    ELSE 10 * DecimalValue(SubSeq(f, 1, Len(f) - 1)) + DigitValue(f[Len(f)])

\* int(s) succeeds: an optional sign and decimal digits.
IsIntLiteral(f) ==
    \/ IsDigits(f)
    \/ Len(f) > 1 /\ f[1] \in {"-", "+"} /\ IsDigits(Tail(f))

\* int(s)
IntOf(f) ==
    IF IsDigits(f) THEN DecimalValue(f)
    ELSE IF f[1] = "-" THEN 0 - DecimalValue(Tail(f))
    ELSE DecimalValue(Tail(f))

\* DictSet giving the new value to every key of the dict.
DictSet_Clobber(d, k, v) == [x \in DOMAIN d \cup {k} |-> v]

\* d[k] = v on a dict modelled as a function.
DictSet(d, k, v) == [x \in DOMAIN d \cup {k} |-> IF x = k THEN v ELSE d[x]]

EmptyDict == <<>>

\* re_empty: only whitespace and an optional comment.
ReEmptyMatches(line) == line.fields = <<>>

\* re_value: ^(\S+)\s+(\d+)(?:\s*#\s*(.+))?$
ReValueMatches(line) ==
    /\ ~line.lead
    /\ Len(line.fields) = 2
    /\ IsDigits(line.fields[2])
    /\ line.comment \in {"none", "text"}

DEFAULT_VALUES ==
    [n \in {<<"version">>, <<"installedsize">>, <<"packagesize">>} |->
        CASE n = <<"version">> -> 0
          [] n = <<"installedsize">> -> 1
          [] n = <<"packagesize">> -> 2]

DEFAULT_VALUE_DESCS ==
    [n \in {<<"version">>, <<"installedsize">>, <<"packagesize">>} |->
        CASE n = <<"version">> -> "package version"
          [] n = <<"installedsize">> -> "installed size"
          [] n = <<"packagesize">> -> "package size"]

\* The loop of axi.readValueDB over the lines, from the dicts so far.
RECURSIVE AxiReadLines(_, _)
AxiReadLines(lines, acc) ==
    IF lines = <<>> THEN acc
    ELSE LET line == Head(lines)
             next == IF ReEmptyMatches(line) THEN acc
                     ELSE IF ~ReValueMatches(line) THEN acc
                     ELSE LET name == line.fields[1]
                              number == IntOf(line.fields[2])
                              desc == IF line.comment = "text" THEN "d" ELSE ""
                          IN [values |-> DictSet(acc.values, name, number),
                              descs |-> DictSet(acc.descs, name, desc)]
         IN AxiReadLines(Tail(lines), next)

AxiReadValueDB(source) ==
    IF ~source.readable
    THEN [values |-> DEFAULT_VALUES, descs |-> DEFAULT_VALUE_DESCS]
    ELSE LET read == AxiReadLines(source.lines,
                                  [values |-> EmptyDict, descs |-> EmptyDict])
         IN IF DOMAIN read.values = {}
            THEN [values |-> DEFAULT_VALUES, descs |-> DEFAULT_VALUE_DESCS]
            ELSE read

\* splitter.split(line) after rmcomments: a line starting with whitespace
\* splits into an empty first field and the rest.
SplitFields(line) == IF line.lead THEN << <<>> >> \o line.fields ELSE line.fields

RECURSIVE SetAliases(_, _, _)
SetAliases(values, aliases, number) ==
    IF aliases = <<>> THEN values
    ELSE SetAliases(DictSet(values, Head(aliases), number), Tail(aliases), number)

\* The loop of aptxapianindex.readValueDB over the lines.
RECURSIVE ExampleReadLines(_, _)
ExampleReadLines(lines, values) ==
    IF lines = <<>> THEN values
    ELSE LET line == Head(lines)
             fields == SplitFields(line)
             next == IF line.fields = <<>> THEN values
                     ELSE IF Len(fields) < 2 THEN values
                     ELSE IF ~IsIntLiteral(fields[2]) THEN values
                     ELSE SetAliases(DictSet(values, fields[1], IntOf(fields[2])),
                                     SubSeq(fields, 3, Len(fields)),
                                     IntOf(fields[2]))
         IN ExampleReadLines(Tail(lines), next)

ExampleDefaults ==
    [n \in {<<"installedsize">>, <<"packagesize">>} |->
        IF n = <<"installedsize">> THEN 1 ELSE 2]

ExampleReadValueDB(source) ==
    IF ~source.readable
    THEN [values |-> ExampleDefaults, descs |-> EmptyDict]
    ELSE [values |-> ExampleReadLines(source.lines, EmptyDict), descs |-> EmptyDict]

readValueDB(variant, source) ==
    IF variant = "axi" THEN AxiReadValueDB(source) ELSE ExampleReadValueDB(source)

Variants == {"axi", "example"}

(***************************************************************************)
(* xapian.Query: a term, or an operator over sub-queries in their order.   *)
(***************************************************************************)
TermQuery(t) == [op |-> "TERM", term |-> t, subs |-> <<>>]

OpQuery(op, subs) == [op |-> op, term |-> "", subs |-> subs]

\* The names of the preset filters are character sequences, so that
\* sorted() can compare them.
NameGame == <<"g", "a", "m", "e">>
NameGui == <<"g", "u", "i">>
NameCmdline == <<"c", "m", "d", "l", "i", "n", "e">>
NameEditor == <<"e", "d", "i", "t", "o", "r">>

\* filterdb, as the module defines it.
PresetFilters ==
    [n \in {NameGame, NameGui, NameCmdline, NameEditor} |->
        CASE n = NameGame ->
               OpQuery("AND", <<TermQuery("XTuse::gameplaying"),
                                TermQuery("XTrole::program")>>)
          [] n = NameGui ->
               OpQuery("AND", <<TermQuery("XTrole::program"),
                                OpQuery("OR", <<TermQuery("XTinterface::x11"),
                                                TermQuery("XTinterface::3d")>>)>>)
          [] n = NameCmdline ->
               OpQuery("AND", <<TermQuery("XTrole::program"),
                                TermQuery("XTinterface::commandline")>>)
          [] n = NameEditor ->
               OpQuery("AND", <<TermQuery("XTrole::program"),
                                TermQuery("XTuse::editing")>>)]

\* termsForSimpleQuery is not in use.
IdleTerms ==
    /\ keywords = <<>>
    /\ stemmer = "none"
    /\ terms = [called |-> FALSE, terms |-> <<>>]

NotFiltered ==
    [called |-> FALSE, raised |-> FALSE, query |-> TermQuery(""), message |-> <<>>]

\* addSimpleFilterToQuery is not in use.
IdleFilter ==
    /\ query = TermQuery("")
    /\ filtername = [given |-> FALSE, name |-> <<>>]
    /\ filterdb = PresetFilters
    /\ filtered = NotFiltered

\* An integer of Python, which has no upper bound, held in two limbs:
\* the number is hi * Limb + lo, with 0 <= lo < Limb.
Limb == 16777216

Wide(hi, lo) == [hi |-> hi, lo |-> lo]

NoTime == [days |-> -1, secs |-> -1]

\* decode_time is not in use.
IdleTime ==
    /\ raw = <<>>
    /\ decoded = [called |-> FALSE, timed |-> FALSE, value |-> Wide(0, 0), time |-> NoTime]

(***************************************************************************)
(* The index, as dump_terms.py and list_packages.py read it.  A term is    *)
(* its first two characters and the rest, which is what startswith("XP")   *)
(* and term[2:] look at.  Xapian lists the terms of a document in byte     *)
(* order, each once: a term list is a sub-list of AllTerms, which is in    *)
(* that order.  A value slot holds bytes; a string that the tools decode   *)
(* from a slot is the sequence of its code points.                         *)
(***************************************************************************)
Term(head, rest) == [head |-> head, rest |-> rest]

AllTerms ==
    << Term("XD", "libc6"),
       Term("XP", "emacs"),
       Term("XP", "vim"),
       Term("XR", "Dlibc6"),
       Term("XR", "Rctags"),
       Term("XS", "editors"),
       Term("XS", "utils"),
       Term("XV", "9.0"),
       Term("XV", "wit:2:9.0") >>

\* The terms of AllTerms at the places in S, in their order.
RECURSIVE TermList(_)
TermList(S) ==
    IF S = {} THEN <<>>
    ELSE LET last == CHOOSE i \in S : \A j \in S : j <= i
         IN Append(TermList(S \ {last}), AllTerms[last])

\* None, or a string.
Absent == [some |-> FALSE, s |-> ""]

Some(s) == [some |-> TRUE, s |-> s]

\* None, or a string decoded from a value slot.
AbsentVersion == [some |-> FALSE, chars |-> <<>>]

SomeVersion(chars) == [some |-> TRUE, chars |-> chars]

\* doc.get_value(n) for the slots 0, 1 and 3; an unset slot is empty.
Values(v0, v1, v3) == [v0 |-> v0, v1 |-> v1, v3 |-> v3]

Document(termlist, values) == [terms |-> termlist, values |-> values]

\* How the package manager answers: dpkg-query and apt-cache each answer
\* ("ok"), exit with an error because they do not know the package
\* ("notfound", CalledProcessError), or are not installed ("missing",
\* FileNotFoundError); section is the Section field they report.
PackageManager(dpkg, apt, section) == [dpkg |-> dpkg, apt |-> apt, section |-> section]

PmAllOk == PackageManager("ok", "ok", Some("editors"))

NoRecord ==
    [pkg_name |-> Absent, repo_version |-> Absent, installed_flag |-> FALSE,
     installed_version |-> AbsentVersion, installed_version_real |-> AbsentVersion,
     installed_shown |-> AbsentVersion, dpkg_version |-> Absent, section |-> Absent,
     apt_installed |-> Absent, apt_candidate |-> Absent]

NotDumped == [called |-> FALSE, raised |-> FALSE, error |-> "", record |-> NoRecord]

\* dump_doc_info is not in use.
IdleDump ==
    /\ doc = Document(<<>>, Values(<<>>, <<>>, <<>>))
    /\ dumped = NotDumped

\* What a scan has found so far: found_any / found, groups, names.
NothingFound == [any |-> FALSE, groups |-> {}, names |-> <<>>]

\* What a scan has printed: the lines of names or groups, the records
\* dump_doc_info printed, the message that nothing was found, the groups
\* suggested for an unknown one and the message that none is similar.
NoOutput ==
    [lines |-> <<>>, dumps |-> <<>>, notfound |-> FALSE,
     suggestions |-> <<>>, no_similar |-> FALSE]

\* No scan runs.
IdleScan ==
    /\ db = <<>>
    /\ command = [name |-> "none", arg |-> ""]
    /\ docid = 1
    /\ found = NothingFound
    /\ output = NoOutput
    /\ status = "idle"
    /\ error = ""

\* readValueDB is not in use.
IdleValueDB ==
    /\ vdbVariant = "axi"
    /\ vdbSource = Unreadable
    /\ vdbResult = [called |-> FALSE, values |-> EmptyDict, descs |-> EmptyDict]

\* update-index is not in use.
\* Sizes.__init__: no slot known, and no value written yet.
NoSizes == [val_inst_size |-> -1, val_pkg_size |-> -1, written |-> {}]

IdleRegistry ==
    /\ plugins = <<>>
    /\ indexer = [values |-> EmptyDict, values_desc |-> EmptyDict, order |-> <<>>]
    /\ next_slot = 0
    /\ regPc = "idle"
    /\ sizes = NoSizes

InitValueDB ==
    /\ vdbVariant \in Variants
    /\ vdbSource \in Sources
    /\ vdbResult = [called |-> FALSE, values |-> EmptyDict, descs |-> EmptyDict]
    /\ IdleRegistry
    /\ IdleTerms
    /\ IdleFilter
    /\ IdleTime
    /\ IdleDump
    /\ IdleScan
    /\ pm = PmAllOk

\* The call of readValueDB on the file.
ReadValueDB ==
    /\ ~vdbResult.called
    /\ vdbResult' = [called |-> TRUE,
                      values |-> readValueDB(vdbVariant, vdbSource).values,
                      descs |-> readValueDB(vdbVariant, vdbSource).descs]
    /\ UNCHANGED <<vdbVariant, vdbSource, regVars, termVars, filterVars, timeVars,
                 pm, dumpVars, scanVars>>

NextValueDB == ReadValueDB

SpecValueDB == InitValueDB /\ [][NextValueDB]_vars

(***************************************************************************)
(* The classes of lines the claims about readValueDB speak of.  A valid    *)
(* record is `name value [# description]`; a malformed line has fewer than *)
(* two fields or a second field that is no integer.  Lines that are        *)
(* neither (extra fields, a signed value, a bare "#", leading whitespace   *)
(* before two fields) are left to the variant.                             *)
(***************************************************************************)
IsBlankOrComment(line) == line.fields = <<>>

IsValidRecord(line) ==
    /\ ~line.lead
    /\ Len(line.fields) = 2
    /\ IsDigits(line.fields[2])
    /\ line.comment \in {"none", "text"}

IsMalformed(line) ==
    /\ line.fields # <<>>
    /\ Len(line.fields) < 2 \/ ~IsIntLiteral(line.fields[2])

\* The lines of the file that mention `name` in any field.
Mentions(lines, name) == {i \in DOMAIN lines : name \in Range(lines[i].fields)}

IsDefaultMapping(values) == values = DEFAULT_VALUES \/ values = ExampleDefaults

\* C1 (as claimed): after readValueDB on a readable file, the name of every
\* valid record is a key of the returned mapping, mapped to the record's
\* integer when no other line mentions the name; and no entry comes from a
\* malformed line: unless the result is the default mapping, every key is
\* a field of a line that is not malformed, whatever lines come before it.
C1_EveryValidLineYieldsEntryMalformedNone ==
    (vdbResult.called /\ vdbSource.readable) =>
        LET lines == vdbSource.lines
            values == vdbResult.values
        IN /\ \A i \in DOMAIN lines :
                IsValidRecord(lines[i]) =>
                    /\ lines[i].fields[1] \in DOMAIN values
                    /\ Mentions(lines, lines[i].fields[1]) = {i} =>
                           values[lines[i].fields[1]] = DecimalValue(lines[i].fields[2])
           /\ IsDefaultMapping(values) \/
                \A name \in DOMAIN values :
                    \E i \in DOMAIN lines :
                        /\ ~IsBlankOrComment(lines[i])
                        /\ ~IsMalformed(lines[i])
                        /\ name \in Range(lines[i].fields)

\* The part of C1 that both variants keep: valid records are never lost.
C1_ValidRecordsKept ==
    (vdbResult.called /\ vdbSource.readable) =>
        \A i \in DOMAIN vdbSource.lines :
            IsValidRecord(vdbSource.lines[i]) =>
                vdbSource.lines[i].fields[1] \in DOMAIN vdbResult.values

\* The file holds no valid record: it is empty, or every line is blank, a
\* comment or malformed.
ZeroValidRecords(lines) ==
    \A i \in DOMAIN lines : IsBlankOrComment(lines[i]) \/ IsMalformed(lines[i])

\* C2 (as claimed): readValueDB returns the default mapping when the file
\* cannot be read and when it holds no valid record, and it never returns
\* an empty mapping.
C2_FallsBackToDefaults ==
    vdbResult.called =>
        /\ (~vdbSource.readable \/ ZeroValidRecords(vdbSource.lines)) =>
               IsDefaultMapping(vdbResult.values)
        /\ DOMAIN vdbResult.values # {}

\* What holds of C2: the axi variant falls back in both cases, the example
\* variant when the file cannot be read.
C2_AxiFallsBack ==
    (vdbResult.called /\ (vdbVariant = "axi" \/ ~vdbSource.readable)) =>
        /\ (~vdbSource.readable \/ ZeroValidRecords(vdbSource.lines)) =>
               IsDefaultMapping(vdbResult.values)
        /\ DOMAIN vdbResult.values # {}

\* The line, as the file has it, gives `name` the number k: the name is its
\* first column or a column after the second, and k is its second column.
Numbers(line, name, k) ==
    LET f == SplitFields(line)
    IN /\ Len(f) >= 2
       /\ IsIntLiteral(f[2])
       /\ k = (IF f[2][1] = "-" THEN 0 - DecimalValue(Tail(f[2]))
               ELSE IF f[2][1] = "+" THEN DecimalValue(Tail(f[2]))
               ELSE DecimalValue(f[2]))
       /\ \E p \in DOMAIN f \ {2} : f[p] = name

MaxPlugins == 3

\* One entry of info()['values']: v.get('name') is None when the key is
\* missing, v.get('desc', '') is '' when it is.
ValueDecl(hasName, name, desc) == [hasName |-> hasName, name |-> name, desc |-> desc]

\* An addon: whether addon.obj has an info method, and info().get('values', []).
Addon(hasInfo, values) == [hasInfo |-> hasInfo, values |-> values]

Addons ==
    { Addon(FALSE, << ValueDecl(TRUE, "installedsize", "never asked") >>),
      Addon(TRUE, <<>>),
      Addon(TRUE, << ValueDecl(TRUE, "installedsize", "installed size"),
                     ValueDecl(TRUE, "packagesize", "package size") >>),
      Addon(TRUE, << ValueDecl(TRUE, "version", "package version"),
                     ValueDecl(TRUE, "installedsize", "size on disk") >>),
      Addon(TRUE, << ValueDecl(FALSE, "", "nameless"),
                     ValueDecl(TRUE, "packagesize", ""),
                     ValueDecl(TRUE, "version", "version again") >>),
      Addon(TRUE, << ValueDecl(TRUE, "", "empty name"),
                     ValueDecl(TRUE, "display_name", "name"),
                     ValueDecl(TRUE, "display_name", "name twice") >>) }

\* `if name`: the name is neither None nor ''.
Truthy(v) == v.hasName /\ v.name # ""

\* RegisterValue without the `name not in indexer.values` test: a name
\* declared again takes a new slot and the later description.
RegisterValue_Overwrite(reg, v) ==
    IF Truthy(v)
    THEN [values |-> DictSet(reg.values, v.name, reg.next_slot),
          values_desc |-> DictSet(reg.values_desc, v.name, v.desc),
          order |-> Append(reg.order, v.name),
          next_slot |-> reg.next_slot + 1]
    ELSE reg

\* Lines 36-42: one value of info()['values'].
RegisterValue(reg, v) ==
    IF Truthy(v) /\ v.name \notin DOMAIN reg.values
    THEN [values |-> DictSet(reg.values, v.name, reg.next_slot),
          values_desc |-> DictSet(reg.values_desc, v.name, v.desc),
          order |-> Append(reg.order, v.name),
          next_slot |-> reg.next_slot + 1]
    ELSE reg

RECURSIVE RegisterValues(_, _)
RegisterValues(reg, values) ==
    IF values = <<>> THEN reg
    ELSE RegisterValues(RegisterValue(reg, Head(values)), Tail(values))

\* Lines 33-42: the loop over indexer.plugins.
RECURSIVE RegisterAddons(_, _)
RegisterAddons(reg, addons) ==
    IF addons = <<>> THEN reg
    ELSE LET addon == Head(addons)
             next == IF addon.hasInfo THEN RegisterValues(reg, addon.values) ELSE reg
         IN RegisterAddons(next, Tail(addons))

InitRegistry ==
    /\ plugins \in SeqUpTo(Addons, MaxPlugins)
    /\ indexer = [values |-> EmptyDict, values_desc |-> EmptyDict, order |-> <<>>]
    /\ next_slot = 0
    /\ regPc = "load"
    /\ sizes = NoSizes
    /\ IdleValueDB
    /\ IdleTerms
    /\ IdleFilter
    /\ IdleTime
    /\ IdleDump
    /\ IdleScan
    /\ pm = PmAllOk

\* main(), lines 28-42: indexer.values and indexer.values_desc are built.
BuildRegistry ==
    /\ regPc = "load"
    /\ LET reg == RegisterAddons([values |-> EmptyDict, values_desc |-> EmptyDict,
                                  order |-> <<>>, next_slot |-> 0], plugins)
       IN /\ indexer' = [values |-> reg.values, values_desc |-> reg.values_desc,
                         order |-> reg.order]
          /\ next_slot' = reg.next_slot
    /\ regPc' = "built"
    /\ UNCHANGED <<plugins, sizes, vdbVars, termVars, filterVars, timeVars,
                 pm, dumpVars, scanVars>>

\* Line 45-46: one entry for each name of indexer.values, in the order in
\* which the dict has them, which is the order of insertion.
values_info(ix) ==
    [p \in DOMAIN ix.order |->
        [name |-> ix.order[p], desc |-> ix.values_desc[ix.order[p]]]]

\* enumerate counting from 1.
EnumerateIndex_FromOne(p) == p

\* The index enumerate() gives the p-th element of a list.
EnumerateIndex(p) == p - 1

\* Sizes.init: the loop over enumerate(values); a later entry of the same
\* name would replace the index.
RECURSIVE SizesInit(_, _, _)
SizesInit(sz, values, p) ==
    IF p > Len(values) THEN sz
    ELSE LET name == values[p].name
             next == IF name = "installedsize"
                     THEN [sz EXCEPT !.val_inst_size = EnumerateIndex(p)]
                     ELSE IF name = "packagesize"
                     THEN [sz EXCEPT !.val_pkg_size = EnumerateIndex(p)]
                     ELSE sz
         IN SizesInit(next, values, p + 1)

\* Sizes.index: the value slots it adds to the document of a package.
SizesIndex(sz) ==
    (IF sz.val_inst_size >= 0
     THEN {[slot |-> sz.val_inst_size, value |-> "installed_size"]} ELSE {})
    \cup
    (IF sz.val_pkg_size >= 0
     THEN {[slot |-> sz.val_pkg_size, value |-> "size"]} ELSE {})

\* main(), lines 44-52: the plugins are initialised with values_info.
InitPlugins ==
    /\ regPc = "built"
    /\ sizes' = SizesInit([NoSizes EXCEPT !.written = sizes.written],
                          values_info(indexer), 1)
    /\ regPc' = "initialised"
    /\ UNCHANGED <<plugins, indexer, next_slot, vdbVars, termVars, filterVars, timeVars,
                   pm, dumpVars, scanVars>>

\* indexer.rebuild(), line 58: Sizes.index is called on a document.
IndexDocument ==
    /\ regPc = "initialised"
    /\ sizes' = [sizes EXCEPT !.written = SizesIndex(sizes)]
    /\ regPc' = "indexed"
    /\ UNCHANGED <<plugins, indexer, next_slot, vdbVars, termVars, filterVars, timeVars,
                   pm, dumpVars, scanVars>>

NextRegistry ==
    \/ BuildRegistry
    \/ InitPlugins
    \/ IndexDocument

SpecRegistry == InitRegistry /\ [][NextRegistry]_vars

\* The names the plugins declare, in the order update-index meets them:
\* plugin by plugin, each plugin's values in their order.
RECURSIVE Declared(_)
Declared(addons) ==
    IF addons = <<>> THEN <<>>
    ELSE (IF Head(addons).hasInfo
          THEN SelectSeq(Head(addons).values, Truthy)
          ELSE <<>>) \o Declared(Tail(addons))

\* Where `name` is declared first.
FirstAt(decls, name) ==
    CHOOSE i \in DOMAIN decls :
        decls[i].name = name /\ \A j \in 1..(i - 1) : decls[j].name # name

\* C3: once update-index has built the registry, the registered names are
\* the names declared, the slot of a name is the number of names first
\* declared before it (so the slots are 0..n-1 in first-seen order and no
\* two names share one), and its description is the one of its first
\* declaration.
C3_SlotsSequentialFirstSeen ==
    regPc = "built" =>
        LET decls == Declared(plugins)
            names == {decls[i].name : i \in DOMAIN decls}
        IN /\ DOMAIN indexer.values = names
           /\ DOMAIN indexer.values_desc = names
           /\ \A n \in names :
                /\ indexer.values[n] =
                      Cardinality({m \in names : FirstAt(decls, m) < FirstAt(decls, n)})
                /\ indexer.values_desc[n] = decls[FirstAt(decls, n)].desc
           /\ {indexer.values[n] : n \in names} = 0..(Cardinality(names) - 1)
           /\ \A n, m \in names : indexer.values[n] = indexer.values[m] => n = m
           /\ next_slot = Cardinality(names)

\* C3's case: a later plugin declares again, with another description, a
\* name that an earlier plugin registered, and new names beside it.
C3_Witness ==
    /\ regPc = "built"
    /\ Len(plugins) >= 2
    /\ Cardinality(DOMAIN indexer.values) >= 3
    /\ \E i, j \in DOMAIN Declared(plugins) :
          /\ i < j
          /\ Declared(plugins)[i].name = Declared(plugins)[j].name
          /\ Declared(plugins)[i].desc # Declared(plugins)[j].desc

\* The slot the registry has for the name, or -1.
SlotOrNone(name) ==
    IF name \in DOMAIN indexer.values THEN indexer.values[name] ELSE -1

\* C17: once update-index has built the registry and initialised the
\* plugins, val_inst_size is the slot indexer.values has for installedsize
\* and val_pkg_size the one it has for packagesize, each -1 exactly when
\* the name is not registered; and Sizes.index writes the sizes to these
\* slots and to no other.
C17_SizesSlotsAgreeWithRegistry ==
    regPc \in {"initialised", "indexed"} =>
        /\ sizes.val_inst_size = SlotOrNone("installedsize")
        /\ sizes.val_pkg_size = SlotOrNone("packagesize")
        /\ sizes.val_inst_size = -1 <=> "installedsize" \notin DOMAIN indexer.values
        /\ sizes.val_pkg_size = -1 <=> "packagesize" \notin DOMAIN indexer.values
        /\ regPc = "indexed" =>
              sizes.written =
                  {[slot |-> indexer.values[n], value |-> "installed_size"] :
                      n \in {"installedsize"} \cap DOMAIN indexer.values}
                  \cup
                  {[slot |-> indexer.values[n], value |-> "size"] :
                      n \in {"packagesize"} \cap DOMAIN indexer.values}

\* C17's case: the plugins have been initialised and a document indexed,
\* with installedsize registered after another name, packagesize before
\* it, and so in an order that is not the one Sizes declares them in.
C17_Witness ==
    /\ regPc = "indexed"
    /\ "installedsize" \in DOMAIN indexer.values
    /\ "packagesize" \in DOMAIN indexer.values
    /\ indexer.values["packagesize"] < indexer.values["installedsize"]
    /\ indexer.values["packagesize"] > 0
    /\ sizes.written # {}

(***************************************************************************)
(* termsForSimpleQuery (aptxapianindex.py).  A keyword and a term are      *)
(* sequences of characters.  The stemmer is xapian's: the model lets it be *)
(* one of three functions, one that leaves every word alone, one that      *)
(* drops a final "s" and one that drops the last character of every word.  *)
(***************************************************************************)
MaxKeywords == 2

UpperChars == {"E", "R"}

LowerChars == {"a", "b", "d", "e", "p", "r", "s"}

Keywords ==
    { <<"r", ":", ":", "p">>,
      <<"r", ":", ":", "p", "s">>,
      <<"R", ":", ":", "p">>,
      <<":", ":">>,
      <<"1", ":", ":", "2">>,
      <<"a", "1", ":", ":", "b">>,
      <<"r", ":", "p">>,
      <<"E", "d", "s">>,
      <<"e", "d", "s">>,
      <<"e", "d">> }

Stemmers == {"identity", "plural", "chop"}

\* stemmer(word)
Stem(st, word) ==
    CASE st = "plural" ->
           IF Len(word) > 1 /\ word[Len(word)] = "s"
           THEN SubSeq(word, 1, Len(word) - 1) ELSE word
      [] st = "chop" ->
           IF Len(word) > 1 THEN SubSeq(word, 1, Len(word) - 1) ELSE word
      [] OTHER -> word

LowerChar(c) == CASE c = "E" -> "e" [] c = "R" -> "r" [] OTHER -> c

\* word.lower()
Lower(word) == [i \in DOMAIN word |-> LowerChar(word[i])]

\* IsLower with the test of the uppercase characters left out.
IsLower_SomeLowercase(word) == \E i \in DOMAIN word : word[i] \in LowerChars

\* word.islower(): at least one cased character, and none uppercase.
IsLower(word) ==
    /\ \E i \in DOMAIN word : word[i] \in LowerChars \cup UpperChars
    /\ \A i \in DOMAIN word : word[i] \notin UpperChars

\* word.find("::") != -1
FindsDoubleColon(word) ==
    \E i \in 1..(Len(word) - 1) : word[i] = ":" /\ word[i + 1] = ":"

\* PlainTerms with the stem added whether or not it differs from the word.
PlainTerms_AlwaysStem(word, st) ==
    <<Lower(word), <<"Z">> \o Stem(st, Lower(word))>>

\* Lines 62-69: the terms of a keyword that is no tag.
PlainTerms(word, st) ==
    LET lowered == Lower(word)
        stem == Stem(st, lowered)
    IN IF stem # lowered THEN <<lowered, <<"Z">> \o stem>> ELSE <<lowered>>

\* Lines 52-69: the terms of one keyword.
KeywordTerms(word, st) ==
    IF IsLower(word) /\ FindsDoubleColon(word)
    THEN << <<"X", "T">> \o word >>
    ELSE PlainTerms(word, st)

RECURSIVE termsForSimpleQuery(_, _)
termsForSimpleQuery(kws, st) ==
    IF kws = <<>> THEN <<>>
    ELSE KeywordTerms(Head(kws), st) \o termsForSimpleQuery(Tail(kws), st)

InitTerms ==
    /\ keywords \in SeqUpTo(Keywords, MaxKeywords)
    /\ stemmer \in Stemmers
    /\ terms = [called |-> FALSE, terms |-> <<>>]
    /\ IdleValueDB
    /\ IdleRegistry
    /\ IdleFilter
    /\ IdleTime
    /\ IdleDump
    /\ IdleScan
    /\ pm = PmAllOk

\* The call termsForSimpleQuery(keywords).
TermsForSimpleQuery ==
    /\ ~terms.called
    /\ terms' = [called |-> TRUE, terms |-> termsForSimpleQuery(keywords, stemmer)]
    /\ UNCHANGED <<keywords, stemmer, vdbVars, regVars, filterVars, timeVars,
                 pm, dumpVars, scanVars>>

NextTerms == TermsForSimpleQuery

SpecTerms == InitTerms /\ [][NextTerms]_vars

\* A keyword is a tag when it is entirely lowercase (it has letters and no
\* uppercase one) and contains "::".
IsTagKeyword(word) ==
    /\ \E i \in DOMAIN word : word[i] \in LowerChars \cup UpperChars
    /\ ~\E i \in DOMAIN word : word[i] \in UpperChars
    /\ \E i \in DOMAIN word : i < Len(word) /\ word[i] = ":" /\ word[i + 1] = ":"

HasTagPrefix(term) == Len(term) >= 2 /\ term[1] = "X" /\ term[2] = "T"

\* C6: the list termsForSimpleQuery returns holds the tag term of a keyword,
\* the tag prefix and the keyword as it was given, exactly when the keyword
\* is entirely lowercase and contains "::"; no other term of the list has
\* the tag prefix, and a tag keyword adds nothing but its tag term.
C6_TagIffLowercaseWithDoubleColon ==
    terms.called =>
        /\ \A k \in DOMAIN keywords :
              (<<"X", "T">> \o keywords[k] \in Range(terms.terms))
                 <=> IsTagKeyword(keywords[k])
        /\ \A i \in DOMAIN terms.terms :
              HasTagPrefix(terms.terms[i]) =>
                 \E k \in DOMAIN keywords :
                    /\ IsTagKeyword(keywords[k])
                    /\ terms.terms[i] = <<"X", "T">> \o keywords[k]
        /\ (\A k \in DOMAIN keywords : IsTagKeyword(keywords[k])) =>
              terms.terms = [k \in DOMAIN keywords |-> <<"X", "T">> \o keywords[k]]

\* C6's case: a lowercase keyword with "::" beside keywords that have "::"
\* but an uppercase letter or no letter at all.
C6_Witness ==
    /\ terms.called
    /\ \E k \in DOMAIN keywords : IsTagKeyword(keywords[k])
    /\ \E k \in DOMAIN keywords :
          /\ ~IsTagKeyword(keywords[k])
          /\ \E i \in 1..(Len(keywords[k]) - 1) :
                keywords[k][i] = ":" /\ keywords[k][i + 1] = ":"

NoTagPrefix(term) == ~HasTagPrefix(term)

\* What C7 asks of the plain keywords, in their order.
RECURSIVE PlainExpected(_, _)
PlainExpected(kws, st) ==
    IF kws = <<>> THEN <<>>
    ELSE LET w == Lower(Head(kws))
             own == IF IsTagKeyword(Head(kws)) THEN <<>>
                    ELSE IF Stem(st, w) = w THEN <<w>>
                    ELSE <<w, <<"Z">> \o Stem(st, w)>>
         IN own \o PlainExpected(Tail(kws), st)

\* C7: the terms without the tag prefix are, keyword by keyword in the
\* order of the plain keywords, the lowercased keyword followed by "Z" and
\* its stem exactly when the stem of the lowercased keyword differs from it.
C7_LiteralThenStemWhenDifferent ==
    terms.called =>
        SelectSeq(terms.terms, NoTagPrefix) = PlainExpected(keywords, stemmer)

\* C7's case: a mixed-case keyword whose stem differs, and a plain keyword
\* whose stem is the keyword itself.
C7_Witness ==
    /\ terms.called
    /\ \E k \in DOMAIN keywords :
          /\ ~IsTagKeyword(keywords[k])
          /\ Lower(keywords[k]) # keywords[k]
          /\ Stem(stemmer, Lower(keywords[k])) # Lower(keywords[k])
    /\ \E k \in DOMAIN keywords :
          /\ ~IsTagKeyword(keywords[k])
          /\ Stem(stemmer, Lower(keywords[k])) = Lower(keywords[k])

(***************************************************************************)
(* addSimpleFilterToQuery (aptxapianindex.py).  The message of the error   *)
(* is modelled by the list of names it joins.                              *)
(***************************************************************************)
\* The code point of a character of a preset's name.
Ord(c) ==
    CASE c = "a" -> 97 [] c = "c" -> 99 [] c = "d" -> 100 [] c = "e" -> 101
      [] c = "g" -> 103 [] c = "i" -> 105 [] c = "l" -> 108 [] c = "m" -> 109
      [] c = "n" -> 110 [] c = "o" -> 111 [] c = "r" -> 114 [] c = "t" -> 116
      [] c = "u" -> 117

\* a < b on strings: at the first difference, or a is a proper prefix of b.
StrLess(a, b) ==
    \/ \E i \in DOMAIN a \cap DOMAIN b :
          /\ \A j \in 1..(i - 1) : a[j] = b[j]
          /\ Ord(a[i]) < Ord(b[i])
    \/ Len(a) < Len(b) /\ \A j \in DOMAIN a : a[j] = b[j]

\* sorted(filterdb): the keys in ascending order.
RECURSIVE Sorted(_)
Sorted(S) ==
    IF S = {} THEN <<>>
    ELSE LET least == CHOOSE x \in S : \A y \in S \ {x} : StrLess(x, y)
         IN <<least>> \o Sorted(S \ {least})

FilterNames ==
    { [given |-> FALSE, name |-> <<>>],
      [given |-> TRUE, name |-> <<>>],
      [given |-> TRUE, name |-> NameGame],
      [given |-> TRUE, name |-> NameGui],
      [given |-> TRUE, name |-> NameCmdline],
      [given |-> TRUE, name |-> NameEditor],
      [given |-> TRUE, name |-> <<"g", "a", "m", "e", "s">>],
      [given |-> TRUE, name |-> <<"G", "u", "i">>],
      [given |-> TRUE, name |-> <<"x">>] }

Queries ==
    { TermQuery("vim"),
      TermQuery("XTrole::program"),
      OpQuery("AND", <<>>),
      OpQuery("AND", <<TermQuery("editors"), TermQuery("Zeditor")>>),
      OpQuery("AND", <<TermQuery("XTuse::gameplaying"), TermQuery("XTrole::program")>>),
      OpQuery("OR", <<TermQuery("vim"), TermQuery("emacs")>>),
      OpQuery("AND", <<TermQuery("vim"),
                       OpQuery("OR", <<TermQuery("gtk"), TermQuery("qt")>>)>>) }

Returned(q) == [called |-> TRUE, raised |-> FALSE, query |-> q, message |-> <<>>]

Raised(names) ==
    [called |-> TRUE, raised |-> TRUE, query |-> TermQuery(""), message |-> names]

\* `if filtername`: neither None nor the empty string.
FilterGiven(name) == name.given /\ name.name # <<>>

\* addSimpleFilterToQuery with the operands of the AND the other way round.
addSimpleFilterToQuery_QueryFirst(q, name, presets) ==
    IF FilterGiven(name)
    THEN IF name.name \in DOMAIN presets
         THEN Returned(OpQuery("AND", <<q, presets[name.name]>>))
         ELSE Raised(Sorted(DOMAIN presets))
    ELSE Returned(q)

addSimpleFilterToQuery(q, name, presets) ==
    IF FilterGiven(name)
    THEN IF name.name \in DOMAIN presets
         THEN Returned(OpQuery("AND", <<presets[name.name], q>>))
         ELSE Raised(Sorted(DOMAIN presets))
    ELSE Returned(q)

InitFilter ==
    /\ query \in Queries
    /\ filtername \in FilterNames
    /\ filterdb = PresetFilters
    /\ filtered = NotFiltered
    /\ IdleValueDB
    /\ IdleRegistry
    /\ IdleTerms
    /\ IdleTime
    /\ IdleDump
    /\ IdleScan
    /\ pm = PmAllOk

\* The call addSimpleFilterToQuery(query, filtername).
AddSimpleFilterToQuery ==
    /\ ~filtered.called
    /\ filtered' = addSimpleFilterToQuery(query, filtername, filterdb)
    /\ UNCHANGED <<query, filtername, filterdb, vdbVars, regVars, termVars, timeVars,
                 pm, dumpVars, scanVars>>

NextFilter == AddSimpleFilterToQuery

SpecFilter == InitFilter /\ [][NextFilter]_vars

\* The message lists every configured filter name once, in ascending order.
ListsPresetsSorted(names) ==
    /\ Range(names) = DOMAIN filterdb
    /\ Len(names) = Cardinality(DOMAIN filterdb)
    /\ \A i, j \in DOMAIN names : i < j => StrLess(names[i], names[j])

\* C4 (as claimed): whenever a filter name is given that is no key of the
\* preset table, addSimpleFilterToQuery raises, returning no query, and the
\* message lists all the configured names, sorted.
C4_UnknownFilterRaises ==
    (filtered.called /\ filtername.given /\ filtername.name \notin DOMAIN filterdb) =>
        /\ filtered.raised
        /\ ListsPresetsSorted(filtered.message)

\* What holds of C4: the same for every name but the empty string.
C4_UnknownNonEmptyFilterRaises ==
    (/\ filtered.called
     /\ filtername.given
     /\ filtername.name # <<>>
     /\ filtername.name \notin DOMAIN filterdb) =>
        /\ filtered.raised
        /\ ListsPresetsSorted(filtered.message)

\* C5: without a filter name addSimpleFilterToQuery returns the query it
\* was given; with the name of a preset it returns the AND of the preset,
\* first, and the query; and the preset table is what the module defines.
C5_AbsentUnchangedPresetAndFirst ==
    filtered.called =>
        /\ ~filtername.given =>
              ~filtered.raised /\ filtered.query = query
        /\ (filtername.given /\ filtername.name \in DOMAIN filterdb) =>
              /\ ~filtered.raised
              /\ filtered.query.op = "AND"
              /\ filtered.query.subs = <<PresetFilters[filtername.name], query>>
        /\ filterdb = PresetFilters

\* C5's case: a preset was asked for, on a query that is not that preset.
C5_Witness ==
    /\ filtered.called
    /\ filtername.given
    /\ filtername.name \in DOMAIN filterdb
    /\ query # filterdb[filtername.name]
    /\ ~filtered.raised

(***************************************************************************)
(* decode_time (dump_terms.py).  What it returns is a string: the model    *)
(* keeps the number the string shows and, when the string also shows a     *)
(* time, the date and time of day as days and seconds since the epoch.     *)
(***************************************************************************)
MaxRawLen == 5

Bytes == {0, 1, 128, 255}

\* value * 256 + b
PushByte(w, b) ==
    Wide(w.hi * 256 + w.lo \div 65536, (w.lo % 65536) * 256 + b)

\* int.from_bytes(raw, byteorder="big")
RECURSIVE FromBytesBig(_)
FromBytesBig(bs) ==
    IF bs = <<>> THEN Wide(0, 0)
    ELSE PushByte(FromBytesBig(SubSeq(bs, 1, Len(bs) - 1)), bs[Len(bs)])

\* struct.unpack(">i", raw)[0]: the four bytes as a signed integer.
UnpackU32_Signed(bs) ==
    Wide(IF bs[1] >= 128 THEN bs[1] - 256 ELSE bs[1],
         bs[2] * 65536 + bs[3] * 256 + bs[4])

\* struct.unpack(">I", raw)[0]
UnpackU32(bs) == Wide(bs[1], bs[2] * 65536 + bs[3] * 256 + bs[4])

SecondsPerDay == 86400

\* datetime.datetime.fromtimestamp(timestamp, datetime.UTC): the day and the
\* second of the day.  Limb is 194 days and 15616 seconds.
FromTimestamp(w) ==
    LET rest == w.hi * (Limb % SecondsPerDay) + w.lo
    IN [days |-> w.hi * (Limb \div SecondsPerDay) + rest \div SecondsPerDay,
        secs |-> rest % SecondsPerDay]

\* decode_time.  fromtimestamp raises for no 32-bit timestamp (the year is
\* at most 2106), so the except branch of line 18 is never taken.
decode_time(bs) ==
    IF Len(bs) = 4
    THEN [timed |-> TRUE, value |-> UnpackU32(bs), time |-> FromTimestamp(UnpackU32(bs))]
    ELSE [timed |-> FALSE, value |-> FromBytesBig(bs), time |-> NoTime]

InitTime ==
    /\ raw \in SeqUpTo(Bytes, MaxRawLen)
    /\ decoded = [called |-> FALSE, timed |-> FALSE, value |-> Wide(0, 0), time |-> NoTime]
    /\ IdleValueDB
    /\ IdleRegistry
    /\ IdleTerms
    /\ IdleFilter
    /\ IdleDump
    /\ IdleScan
    /\ pm = PmAllOk

\* The call decode_time(raw).
DecodeTime ==
    /\ ~decoded.called
    /\ decoded' = [called |-> TRUE,
                   timed |-> decode_time(raw).timed,
                   value |-> decode_time(raw).value,
                   time |-> decode_time(raw).time]
    /\ UNCHANGED <<raw, vdbVars, regVars, termVars, filterVars,
                 pm, dumpVars, scanVars>>

NextTime == DecodeTime

SpecTime == InitTime /\ [][NextTime]_vars

RECURSIVE Pow256(_)
Pow256(k) == IF k = 0 THEN 1 ELSE 256 * Pow256(k - 1)

\* The byte of weight 256^k of a number in two limbs.
ByteOf(w, k) ==
    IF k < 3 THEN (w.lo \div Pow256(k)) % 256 ELSE (w.hi \div Pow256(k - 3)) % 256

\* w is the unsigned big-endian integer of the bytes bs: it is not
\* negative, it fits Len(bs) bytes, and its bytes are those of bs.
IsBigEndianOf(w, bs) ==
    /\ w.hi >= 0 /\ w.lo >= 0 /\ w.lo < Limb
    /\ IF Len(bs) < 3 THEN w.hi = 0 /\ w.lo < Pow256(Len(bs))
       ELSE w.hi < Pow256(Len(bs) - 3)
    /\ \A i \in DOMAIN bs : ByteOf(w, Len(bs) - i) = bs[i]

\* t counts the w seconds since the epoch in days and seconds of the day
\* (compared in units of 128 seconds, which divide a day).
IsTimeOf(t, w) ==
    /\ t.days >= 0 /\ t.secs >= 0 /\ t.secs < SecondsPerDay
    /\ t.days * (SecondsPerDay \div 128) + t.secs \div 128
          = w.hi * (Limb \div 128) + w.lo \div 128
    /\ t.secs % 128 = w.lo % 128

MaxTerms == 4

\* The bytes of "9.0-1", of "9.0", and two slots that are not text.
Bytes_9_0_1 == <<57, 46, 48, 45, 49>>
Bytes_9_0 == <<57, 46, 48>>

ValueSets ==
    { Values(<<>>, <<>>, <<>>),
      Values(<<>>, <<128>>, Bytes_9_0_1),
      Values(Bytes_9_0, <<128, 7>>, <<>>),
      Values(Bytes_9_0, <<127>>, Bytes_9_0_1),
      Values(<<57, 200>>, <<255>>, <<0, 171>>),
      Values(<<>>, <<8>>, Bytes_9_0) }

DumpDocs ==
    { Document(TermList(S), v) :
        S \in {T \in SUBSET DOMAIN AllTerms : Cardinality(T) <= MaxTerms},
        v \in ValueSets }

PackageManagers ==
    { PackageManager(d, a, sec) :
        d \in {"ok", "notfound", "missing"},
        a \in {"ok", "notfound", "missing"},
        sec \in {Absent, Some("editors"), Some("utils")} }

\* The code point of a hexadecimal digit, lowercase.
HexDigit(n) == IF n < 10 THEN 48 + n ELSE 87 + n

\* raw.hex()
RECURSIVE Hex(_)
Hex(bs) ==
    IF bs = <<>> THEN <<>>
    ELSE <<HexDigit(Head(bs) \div 16), HexDigit(Head(bs) % 16)>> \o Hex(Tail(bs))

\* decode_version: the bytes decode as UTF-8 to printable ASCII only when
\* each is a byte from 32 to 126; a byte above 127 is either no UTF-8 or
\* part of a character above 126, and both give the hex form.
decode_version(bs) ==
    IF \A i \in DOMAIN bs : 32 <= bs[i] /\ bs[i] <= 126 THEN bs ELSE Hex(bs)

\* The last term of the list that starts with `head`, its rest; else None.
LastWith(termlist, head) ==
    LET at == {i \in DOMAIN termlist : termlist[i].head = head}
    IN IF at = {} THEN Absent
       ELSE Some(termlist[CHOOSE i \in at : \A j \in at : j <= i].rest)

\* The first term of the list that starts with `head`, its rest; else None.
FirstWith(termlist, head) ==
    LET at == {i \in DOMAIN termlist : termlist[i].head = head}
    IN IF at = {} THEN Absent
       ELSE Some(termlist[CHOOSE i \in at : \A j \in at : i <= j].rest)

\* get_pkg_name_from_doc, get_pkg_name
get_pkg_name_from_doc(d) == FirstWith(d.terms, "XP")

\* InstalledFlag testing the bit 0x08 in place of 0x80.
InstalledFlag_WrongBit(d) ==
    d.values.v1 # <<>> /\ (d.values.v1[1] \div 8) % 2 = 1

\* val1 and (val1[0] & 0x80)
InstalledFlag(d) ==
    d.values.v1 # <<>> /\ (d.values.v1[1] \div 128) % 2 = 1

\* get_dpkg_version: the version, or None after CalledProcessError.
get_dpkg_version(p) == IF p.dpkg = "ok" THEN Some("9.0-1") ELSE Absent

\* get_apt_versions: (installed, candidate), or (None, None).
get_apt_versions(p) ==
    IF p.apt = "ok" THEN <<Some("9.0-1"), Some("9.1-1")>> ELSE <<Absent, Absent>>

\* get_package_metadata: the section apt-cache show reports, else the one
\* dpkg-query -s reports (the description goes with the section).
get_package_metadata(p) ==
    IF p.apt = "ok" /\ p.section.some THEN p.section
    ELSE IF p.dpkg = "ok" THEN p.section
    ELSE Absent

DumpRaised(e) == [called |-> TRUE, raised |-> TRUE, error |-> e, record |-> NoRecord]

\* dump_doc_info on a document that db.get_document found.  A subprocess
\* call raises TypeError for the name None and FileNotFoundError for a
\* command that is not installed; only CalledProcessError is caught.
dump_doc_info(d, p) ==
    LET pkg_name == LastWith(d.terms, "XP")
        repo_version == LastWith(d.terms, "XV")
        installed_raw == d.values.v0
        installed_version ==
            IF installed_raw # <<>> THEN SomeVersion(decode_version(installed_raw))
            ELSE AbsentVersion
        flag == InstalledFlag(d)
        installed_version_real ==
            IF flag /\ d.values.v3 # <<>>
            THEN SomeVersion(decode_version(d.values.v3))
            ELSE AbsentVersion
    IN IF ~pkg_name.some THEN DumpRaised("TypeError")
       ELSE IF p.dpkg = "missing" \/ p.apt = "missing" THEN DumpRaised("FileNotFoundError")
       ELSE [called |-> TRUE, raised |-> FALSE, error |-> "",
             record |->
               [pkg_name |-> pkg_name,
                repo_version |-> repo_version,
                installed_flag |-> flag,
                installed_version |-> installed_version,
                installed_version_real |-> installed_version_real,
                installed_shown |->
                    IF installed_version_real.some THEN installed_version_real
                    ELSE installed_version,
                dpkg_version |-> get_dpkg_version(p),
                section |-> get_package_metadata(p),
                apt_installed |-> get_apt_versions(p)[1],
                apt_candidate |-> get_apt_versions(p)[2]]]

InitDump ==
    /\ doc \in DumpDocs
    /\ pm \in PackageManagers
    /\ dumped = NotDumped
    /\ IdleValueDB
    /\ IdleRegistry
    /\ IdleTerms
    /\ IdleFilter
    /\ IdleTime
    /\ IdleScan

\* The call dump_doc_info(db, docid, args) for a document of the index.
DumpDocInfo ==
    /\ ~dumped.called
    /\ dumped' = dump_doc_info(doc, pm)
    /\ UNCHANGED <<doc, pm, vdbVars, regVars, termVars, filterVars, timeVars, scanVars>>

NextDump == DumpDocInfo

SpecDump == InitDump /\ [][NextDump]_vars

\* The rests of the terms of the document that start with `head`.
Payloads(d, head) == {d.terms[i].rest : i \in {j \in DOMAIN d.terms : d.terms[j].head = head}}

\* The document of C9: one package-name term, one repository-version term,
\* one section term, and relation terms.
IsWellFormedDoc(d) ==
    /\ Cardinality(Payloads(d, "XP")) = 1
    /\ Cardinality(Payloads(d, "XV")) = 1
    /\ Cardinality(Payloads(d, "XS")) = 1
    /\ Payloads(d, "XR") \cup Payloads(d, "XD") # {}

HighBitOfSlot1(d) == d.values.v1 # <<>> /\ d.values.v1[1] >= 128

IsMalformedDoc(d) == Cardinality(Payloads(d, "XP")) # 1

\* C11 (as claimed): for a document with no package-name term or with
\* several, dump_doc_info completes, the name is absent and nothing is
\* looked up with the package manager.
C11_MalformedDocDecodesWithoutName ==
    (dumped.called /\ IsMalformedDoc(doc)) =>
        /\ ~dumped.raised
        /\ ~dumped.record.pkg_name.some
        /\ ~dumped.record.dpkg_version.some
        /\ ~dumped.record.apt_installed.some
        /\ ~dumped.record.apt_candidate.some
        /\ ~dumped.record.section.some

\* C11, what the code does: without a package-name term the call ends in
\* TypeError, whatever the package manager; with several, the last is the
\* name and the lookups are made with it.
C11_NoNameRaisesSeveralNamesUseLast ==
    (dumped.called /\ IsMalformedDoc(doc)) =>
        IF Payloads(doc, "XP") = {}
        THEN dumped.raised /\ dumped.error = "TypeError"
        ELSE \/ dumped.raised /\ dumped.error = "FileNotFoundError"
             \/ /\ ~dumped.raised
                /\ dumped.record.pkg_name = LastWith(doc.terms, "XP")
                /\ dumped.record.dpkg_version = get_dpkg_version(pm)

\* C11's case: a document without a package-name term has been given to
\* dump_doc_info while the package manager answers.
C11_NoNameDumped ==
    /\ dumped.called
    /\ Payloads(doc, "XP") = {}
    /\ pm = PmAllOk
    /\ dumped.raised

(***************************************************************************)
(* The full scans: the name lookup of main, list_groups and                *)
(* list_packages_in_group (dump_terms.py; of the two definitions of        *)
(* list_packages_in_group the second is the one the module ends up with)   *)
(* and main of list_packages.py.  Each runs docid over                     *)
(* range(1, doccount + 1); one action is one pass of the loop body, and    *)
(* one is what follows the loop.                                           *)
(***************************************************************************)
MaxDocId == 4

NoDocument == Document(<<>>, Values(<<>>, <<>>, <<>>))

\* What the engine has for a document id: a document, or no document, and
\* then get_document raises DocNotFoundError (the id is nonexistent) or
\* InvalidArgumentError (the id is invalid).
Stored(d) == [kind |-> "doc", doc |-> d]

Missing(kind) == [kind |-> kind, doc |-> NoDocument]

EngineErrors == {"DocNotFoundError", "InvalidArgumentError"}

\* The places of AllTerms: 2 XPemacs, 3 XPvim, 6 XSeditors, 7 XSutils,
\* 8 XV9.0.
ScanDocs ==
    { Document(TermList({3, 6, 8}), Values(<<>>, <<128>>, Bytes_9_0_1)),
      Document(TermList({2, 7}), Values(<<>>, <<>>, <<>>)),
      Document(TermList({2, 3, 6, 7}), Values(Bytes_9_0, <<>>, <<>>)),
      Document(TermList({7}), Values(<<>>, <<>>, <<>>)) }

Entries == {Stored(d) : d \in ScanDocs} \cup {Missing(e) : e \in EngineErrors}

Command(name, arg) == [name |-> name, arg |-> arg]

Commands ==
    { Command("info", "vim"),
      Command("info", "emacs"),
      Command("list_groups", ""),
      Command("list_packages_in_group", "editors"),
      Command("list_packages_in_group", "utils"),
      Command("list_packages_in_group", "games"),
      Command("list_packages_in_group", "editor"),
      Command("list_packages", "") }

ScanPackageManagers ==
    { PmAllOk,
      PackageManager("notfound", "notfound", Absent),
      PackageManager("ok", "missing", Some("utils")) }

\* db.get_doccount(): the number of documents, not the highest id.
get_doccount(d) == Cardinality({i \in DOMAIN d : d[i].kind = "doc"})

\* db.get_document(docid)
get_document(d, id) == d[id]

\* The order sorted() puts the names and the groups of the model in.
SortOrder == <<"editors", "emacs", "games", "utils", "vim">>

\* sorted(groups), groups a set
SortedSet(S) == SelectSeq(SortOrder, LAMBDA x : x \in S)

\* sorted(names), names a list
RECURSIVE SortedList(_, _)
SortedList(names, from) ==
    IF from > Len(SortOrder) THEN <<>>
    ELSE SelectSeq(names, LAMBDA x : x = SortOrder[from]) \o SortedList(names, from + 1)

InitScan ==
    /\ db \in [1..MaxDocId -> Entries]
    /\ command \in Commands
    /\ pm \in (IF command.name = "info" THEN ScanPackageManagers ELSE {PmAllOk})
    /\ docid = 1
    /\ found = NothingFound
    /\ output = NoOutput
    /\ status = "running"
    /\ error = ""
    /\ IdleValueDB
    /\ IdleRegistry
    /\ IdleTerms
    /\ IdleFilter
    /\ IdleTime
    /\ IdleDump

ScanFrame ==
    UNCHANGED <<db, command, pm, dumpVars, vdbVars, regVars, termVars, filterVars, timeVars>>

\* The loop body is running for docid.
InLoop(name) ==
    /\ status = "running"
    /\ command.name = name
    /\ docid <= get_doccount(db)

\* The loop has run out.
AfterLoop(name) ==
    /\ status = "running"
    /\ command.name = name
    /\ docid > get_doccount(db)

\* continue, or the end of the loop body with nothing done
Continue ==
    /\ docid' = docid + 1
    /\ UNCHANGED <<found, output, status, error>>

\* An exception that nothing catches leaves the command.
Raise(e) ==
    /\ status' = "raised"
    /\ error' = e
    /\ UNCHANGED <<docid, found, output>>

Finish(out) ==
    /\ status' = "done"
    /\ output' = out
    /\ UNCHANGED <<docid, found, error>>

\* main, the lookup of a package by name: the loop body.
NameScanStep ==
    /\ InLoop("info")
    /\ LET got == get_document(db, docid)
           name == get_pkg_name_from_doc(got.doc)
           printed == dump_doc_info(got.doc, pm)
       IN IF got.kind = "InvalidArgumentError" THEN Continue
          ELSE IF got.kind # "doc" THEN Raise(got.kind)
          ELSE IF ~name.some \/ name.s # command.arg THEN Continue
          ELSE IF printed.raised THEN Raise(printed.error)
          ELSE /\ output' = [output EXCEPT
                               !.dumps = Append(@, [docid |-> docid, record |-> printed.record])]
               /\ found' = [found EXCEPT !.any = TRUE]
               /\ docid' = docid + 1
               /\ UNCHANGED <<status, error>>
    /\ ScanFrame

NameScanFinish ==
    /\ AfterLoop("info")
    /\ Finish([output EXCEPT !.notfound = ~found.any])
    /\ ScanFrame

\* list_groups: the loop body.
ListGroupsStep ==
    /\ InLoop("list_groups")
    /\ LET got == get_document(db, docid)
           section == FirstWith(got.doc.terms, "XS")
       IN IF got.kind # "doc" \/ ~section.some THEN Continue
          ELSE /\ found' = [found EXCEPT !.groups = @ \cup {section.s}]
               /\ docid' = docid + 1
               /\ UNCHANGED <<output, status, error>>
    /\ ScanFrame

ListGroupsFinish ==
    /\ AfterLoop("list_groups")
    /\ Finish([output EXCEPT !.lines = SortedSet(found.groups)])
    /\ ScanFrame

\* The def statements of list_packages_in_group, in the order in which the
\* module executes them: the one of line 298, which suggests groups, and
\* the one of line 362, which looks at the section terms.
Definitions == <<"suggesting", "by_section_term">>

\* The function the name is bound to when main calls it: each def statement
\* rebinds the name, so it is the last.
BoundDefinition == Definitions[Len(Definitions)]

\* len() of the group names of the model.
Length(name) ==
    CASE name = "editors" -> 7
      [] name = "editor" -> 6
      [] name = "utils" -> 5
      [] name = "games" -> 5
      [] OTHER -> 0

\* The number of characters in the matching blocks that
\* difflib.SequenceMatcher finds between a group and the name asked for.
Matching(group, name) ==
    CASE group = name -> Length(name)
      [] group = "editors" /\ name = "editor" -> 6
      [] group = "editors" /\ name = "games" -> 2
      [] group = "utils" /\ name = "editors" -> 2
      [] group = "utils" /\ name = "editor" -> 1
      [] group = "utils" /\ name = "games" -> 1
      [] OTHER -> 0

\* ratio() >= cutoff, for ratio() = 2.0 * matches / total length and the
\* cutoff 0.5
ClearsCutoff(group, name) ==
    4 * Matching(group, name) >= Length(group) + Length(name)

MaxSuggestions == 5

\* Whether group a comes before group b in the result of
\* get_close_matches: the higher ratio first.
Closer(a, b, name) ==
    Matching(a, name) * (Length(b) + Length(name))
        > Matching(b, name) * (Length(a) + Length(name))

\* difflib.get_close_matches(group_name, groups, n=5, cutoff=0.5)
RECURSIVE get_close_matches(_, _, _)
get_close_matches(name, groups, n) ==
    LET close == {g \in groups : ClearsCutoff(g, name)}
    IN IF close = {} \/ n = 0 THEN <<>>
       ELSE LET best == CHOOSE g \in close : \A h \in close : ~Closer(h, g, name)
            IN <<best>> \o get_close_matches(name, close \ {best}, n - 1)

\* The documents the loops of the first definition get a name from.
NamedIds(d) ==
    {i \in 1..get_doccount(d) :
        d[i].kind = "doc" /\ get_pkg_name_from_doc(d[i].doc).some}

\* The names of the documents at the ids of S, by id.
RECURSIVE NamesOf(_, _)
NamesOf(d, S) ==
    IF S = {} THEN <<>>
    ELSE LET last == CHOOSE i \in S : \A j \in S : j <= i
         IN Append(NamesOf(d, S \ {last}), get_pkg_name_from_doc(d[last].doc).s)

\* list_packages_in_group as first defined: what it prints.
list_packages_in_group_suggesting(d, group_name, p) ==
    LET section == get_package_metadata(p)
        groups == IF NamedIds(d) # {} /\ section.some THEN {section.s} ELSE {}
        close_matches == get_close_matches(group_name, groups, MaxSuggestions)
    IN IF group_name \notin groups
       THEN [NoOutput EXCEPT !.suggestions = close_matches,
                             !.no_similar = (close_matches = <<>>)]
       ELSE [NoOutput EXCEPT !.lines = NamesOf(d, NamedIds(d)),
                             !.notfound = (NamedIds(d) = {})]

\* list_packages_in_group: the loop body of the function main calls.
ListPackagesInGroupStep ==
    /\ InLoop("list_packages_in_group")
    /\ LET got == get_document(db, docid)
           pkg_name == get_pkg_name_from_doc(got.doc)
       IN IF BoundDefinition = "suggesting"
          THEN Finish(list_packages_in_group_suggesting(db, command.arg, pm))
          ELSE IF got.kind # "doc" THEN Continue
          ELSE IF command.arg \notin Payloads(got.doc, "XS") THEN Continue
          ELSE IF ~pkg_name.some THEN Continue
          ELSE /\ output' = [output EXCEPT !.lines = Append(@, pkg_name.s)]
               /\ found' = [found EXCEPT !.any = TRUE]
               /\ docid' = docid + 1
               /\ UNCHANGED <<status, error>>
    /\ ScanFrame

ListPackagesInGroupFinish ==
    /\ AfterLoop("list_packages_in_group")
    /\ Finish(IF BoundDefinition = "suggesting"
              THEN list_packages_in_group_suggesting(db, command.arg, pm)
              ELSE [output EXCEPT !.notfound = ~found.any])
    /\ ScanFrame

\* list_packages.py, main: the loop body.
ListPackagesStep ==
    /\ InLoop("list_packages")
    /\ LET got == get_document(db, docid)
           name == get_pkg_name_from_doc(got.doc)
       IN IF got.kind = "InvalidArgumentError" THEN Continue
          ELSE IF got.kind # "doc" THEN Raise(got.kind)
          ELSE IF ~name.some THEN Continue
          ELSE /\ found' = [found EXCEPT !.names = Append(@, name.s)]
               /\ docid' = docid + 1
               /\ UNCHANGED <<output, status, error>>
    /\ ScanFrame

ListPackagesFinish ==
    /\ AfterLoop("list_packages")
    /\ Finish([output EXCEPT !.lines = SortedList(found.names, 1)])
    /\ ScanFrame

NextScan ==
    \/ NameScanStep
    \/ NameScanFinish
    \/ ListGroupsStep
    \/ ListGroupsFinish
    \/ ListPackagesInGroupStep
    \/ ListPackagesInGroupFinish
    \/ ListPackagesStep
    \/ ListPackagesFinish

SpecScan == InitScan /\ [][NextScan]_vars

\* C10 (as claimed): no scan raises because the engine reports a document
\* id of 1..doccount as invalid or nonexistent; the id is skipped.
C10_ScansSkipWhatTheEngineRejects ==
    ~(status = "raised" /\ error \in EngineErrors)

\* C10, the part that holds: list_groups and list_packages_in_group never
\* raise, and an id the engine reports as invalid stops no scan.
C10_GroupScansSkipAndInvalidIsSkipped ==
    status = "raised" =>
        /\ command.name \in {"info", "list_packages"}
        /\ error # "InvalidArgumentError"

\* C10's case: the name lookup or list_packages has stopped at an id, in
\* 1..doccount, that the engine reports as nonexistent.
C10_RaisedOnNonexistent ==
    /\ status = "raised"
    /\ error = "DocNotFoundError"
    /\ docid <= get_doccount(db)
    /\ db[docid].kind = "DocNotFoundError"

\* The sections list_groups finds in the index.
DiscoveredSections(d) ==
    {FirstWith(d[i].doc.terms, "XS").s :
        i \in {j \in 1..get_doccount(d) :
                 d[j].kind = "doc" /\ FirstWith(d[j].doc.terms, "XS").some}}

GroupCommandDone ==
    /\ status = "done"
    /\ command.name = "list_packages_in_group"

\* C12 (as claimed): asked for a group that is none of the sections of the
\* index, group --list-packages prints the groups that are close to it,
\* five at most, or that no group is similar.
C12_UnknownGroupGetsSuggestions ==
    (GroupCommandDone /\ command.arg \notin DiscoveredSections(db)) =>
        \/ output.suggestions # <<>> /\ Len(output.suggestions) <= MaxSuggestions
        \/ output.no_similar

\* The payloads of all section terms of the documents a scan visits.
SectionTerms(d) ==
    UNION {Payloads(d[i].doc, "XS") : i \in {j \in 1..get_doccount(d) : d[j].kind = "doc"}}

\* C12, what the command does: for a group that is no section term of the
\* index it prints that the group has no packages, and nothing else; it
\* never suggests a group.
C12_UnknownGroupGetsNotFoundOnly ==
    GroupCommandDone =>
        /\ output.suggestions = <<>> /\ ~output.no_similar
        /\ command.arg \notin SectionTerms(db) =>
               output = [NoOutput EXCEPT !.notfound = TRUE]

\* C12's case: the group "editor" was asked for in an index that has the
\* section "editors", and the command is done.
C12_NearMissAsked ==
    /\ GroupCommandDone
    /\ command.arg = "editor"
    /\ "editors" \in DiscoveredSections(db)
    /\ output.suggestions = <<>>
    /\ ~output.no_similar
\* The lookups of the package manager that fail, in either way.
DpkgFails == pm.dpkg # "ok"

AptFails == pm.apt # "ok"

\* The records the name lookup has printed have no value in the fields
\* whose lookup fails.
FailedFieldsAbsent ==
    \A i \in DOMAIN output.dumps :
        LET rec == output.dumps[i].record
        IN /\ DpkgFails => ~rec.dpkg_version.some
           /\ AptFails => ~rec.apt_installed.some /\ ~rec.apt_candidate.some

\* C13 (as claimed): a lookup of the package manager that fails, in any
\* way, stops neither the record nor the scan: the name lookup raises
\* nothing of it, and the records it prints lack only the failed fields.
C13_LookupFailureOnlyBlanksField ==
    command.name = "info" =>
        /\ status = "raised" => error \in EngineErrors
        /\ FailedFieldsAbsent

\* C13, the part that holds: when the tools are installed and fail by
\* their exit status, the fields are absent and the scan is not stopped.
C13_ExitStatusFailureOnlyBlanksField ==
    (command.name = "info" /\ pm.dpkg # "missing" /\ pm.apt # "missing") =>
        /\ status = "raised" => error \in EngineErrors
        /\ FailedFieldsAbsent

\* C13's case: apt-cache is not installed, and the name lookup has stopped
\* with FileNotFoundError at a document that is not the last of the scan.
C13_ScanStoppedByMissingTool ==
    /\ command.name = "info"
    /\ pm.apt = "missing"
    /\ status = "raised"
    /\ error = "FileNotFoundError"
    /\ docid < get_doccount(db)
\* The document the name lookup printed the i-th record from.
DumpedDoc(i) == db[output.dumps[i].docid].doc

\* C15 (as claimed): the name dump_doc_info prints for a document is the
\* payload of its first XP term, the name get_pkg_name_from_doc returns
\* and the name lookup found equal to the query.
C15_DumpedNameIsFirstName ==
    command.name = "info" =>
        \A i \in DOMAIN output.dumps :
            /\ output.dumps[i].record.pkg_name = FirstWith(DumpedDoc(i).terms, "XP")
            /\ output.dumps[i].record.pkg_name = get_pkg_name_from_doc(DumpedDoc(i))
            /\ output.dumps[i].record.pkg_name.s = command.arg

\* C15, what the code does: the lookup matches the first XP term and
\* dump_doc_info prints the last.
C15_MatchedFirstDumpedLast ==
    command.name = "info" =>
        \A i \in DOMAIN output.dumps :
            /\ get_pkg_name_from_doc(DumpedDoc(i)).s = command.arg
            /\ output.dumps[i].record.pkg_name = LastWith(DumpedDoc(i).terms, "XP")

\* C15's case: asked for emacs, the lookup has printed a record whose
\* name is vim.
C15_AskedEmacsPrintedVim ==
    /\ command = Command("info", "emacs")
    /\ \E i \in DOMAIN output.dumps : output.dumps[i].record.pkg_name = Some("vim")
\* list_packages_in_group prints a package in this step.
PrintsMember ==
    /\ command.name = "list_packages_in_group"
    /\ output'.lines # output.lines

\* C16 (as claimed): a package that list_packages_in_group(g) prints comes
\* from a document whose first XS term is g, so that g is one of the
\* groups list_groups prints for the index.
C16_MemberHasGroupAsFirstSection ==
    [][PrintsMember =>
          /\ FirstWith(db[docid].doc.terms, "XS") = Some(command.arg)
          /\ command.arg \in DiscoveredSections(db)]_vars

\* C16, what the code does: the package comes from a document that has g
\* as one of its XS terms, the first or not.
C16_MemberHasGroupAsSomeSection ==
    [][PrintsMember => command.arg \in Payloads(db[docid].doc, "XS")]_vars

\* list_groups prints the first section terms, sorted.
C16_ListGroupsPrintsFirstSections ==
    (status = "done" /\ command.name = "list_groups") =>
        output.lines = SortedSet(DiscoveredSections(db))

\* C16's case: list_packages_in_group has printed a package for the group
\* utils in an index for which list_groups does not print utils.
C16_MemberOfUnlistedGroup ==
    /\ GroupCommandDone
    /\ command.arg = "utils"
    /\ output.lines # <<>>
    /\ "utils" \notin DiscoveredSections(db)
\* The ids of the documents of the index whose name, as
\* get_pkg_name_from_doc gives it, is q.
Named(d, q) ==
    {i \in DOMAIN d : d[i].kind = "doc" /\ get_pkg_name_from_doc(d[i].doc) = Some(q)}

\* The ids of the documents the name lookup has printed.
DumpedIds == {output.dumps[i].docid : i \in DOMAIN output.dumps}

NameLookupEnded == command.name = "info" /\ status \in {"done", "raised"}

\* C18 (as claimed): the name lookup prints the documents of the index
\* whose name is the query, all of them and no other, whatever their ids,
\* and it prints that nothing was found exactly when there is none.
C18_LookupFindsAllNamed ==
    NameLookupEnded =>
        /\ DumpedIds = Named(db, command.arg)
        /\ output.notfound <=> Named(db, command.arg) = {}

\* C18, what the code does: a lookup that comes to its end has printed the
\* documents named by the query whose id is at most the number of
\* documents, and says that nothing was found when there is none of these.
C18_LookupFindsNamedUpToDoccount ==
    (command.name = "info" /\ status = "done") =>
        /\ DumpedIds = Named(db, command.arg) \cap 1..get_doccount(db)
        /\ output.notfound <=> Named(db, command.arg) \cap 1..get_doccount(db) = {}

\* C18's case: the lookup has come to its end and said that nothing was
\* found, while the index has a document of that name at an id above the
\* number of documents.
C18_NamedDocumentNotReached ==
    /\ command.name = "info"
    /\ status = "done"
    /\ output.notfound
    /\ \E i \in Named(db, command.arg) : i > get_doccount(db)

====
